---------------------------- MODULE Spec2Model ----------------------------
(***************************************************************************)
(* A model of two components of databricks-ai-dev-kit:                     *)
(*                                                                         *)
(*   - server/services/user.py: the identity / credential / workspace-URL  *)
(*     resolvers of the builder app, with their two process-wide caches;   *)
(*   - tools/manifest.py: delete_tracked_resource of the MCP server.       *)
(*                                                                         *)
(* Python values are modelled as follows.  An Optional value is None or    *)
(* Some(v).  User names, resource types, resource ids and error messages   *)
(* are TLA+ strings (compared and concatenated, never sliced).  Tokens,    *)
(* host URLs and Authorization headers, which the code slices and strips,  *)
(* are sequences of one-character strings.                                 *)
(***************************************************************************)
EXTENDS Integers, Sequences, FiniteSets, TLC

VARIABLES
  env,                  \* os.environ: ENV, DATABRICKS_TOKEN, DATABRICKS_HOST
  _dev_user_cache,      \* user.py:21
  _workspace_url_cache, \* user.py:22
  pc,                   \* per caller: where its call in flight stands
  pending,              \* per caller: the local variables of its call in flight
  lookups,              \* number of _fetch_user_from_workspace calls started
  hist,                 \* the calls completed so far, in order of completion
  manifest,             \* the manifest store: a set of <<type, id>> records
  result,               \* what the last delete_tracked_resource returned
  removeLog             \* the remove_resource calls the last delete made

vars == <<env, _dev_user_cache, _workspace_url_cache, pc, pending, lookups,
          hist, manifest, result, removeLog>>

userVars == <<env, _dev_user_cache, _workspace_url_cache, pc, pending,
              lookups, hist>>
manifestVars == <<manifest, result, removeLog>>

----------------------------------------------------------------------------
(* Bounds *)

NumCallers == 2
MaxCalls == 3
MaxHostLen == 3
MaxRecords == 1

Callers == 1..NumCallers

----------------------------------------------------------------------------
(* Python values *)

None == [some |-> FALSE]
Some(v) == [some |-> TRUE, val |-> v]

\* Python truthiness of an Optional string: None and the empty string are falsy.
TruthyStr(o) == o.some /\ o.val # ""
\* The same for an Optional sequence of characters.
TruthySeq(o) == o.some /\ o.val # <<>>

Ok(v) == [kind |-> "ok", val |-> v]
Absent == [kind |-> "none"]
Raised(e) == [kind |-> "error", err |-> e]

SeqsUpTo(S, n) == UNION {[1..k -> S] : k \in 0..n}

\* s.startswith(p)
StartsWith(s, p) == Len(s) >= Len(p) /\ SubSeq(s, 1, Len(p)) = p
\* s[n:]
SliceFrom(s, n) == SubSeq(s, n + 1, Len(s))

RECURSIVE RStripAll(_, _)
RStripAll(s, ch) ==
  IF s # <<>> /\ s[Len(s)] = ch THEN RStripAll(SubSeq(s, 1, Len(s) - 1), ch)
  ELSE s

\* A variant that drops at most one trailing character.
RStripOne(s, ch) ==
  IF s # <<>> /\ s[Len(s)] = ch THEN SubSeq(s, 1, Len(s) - 1) ELSE s

\* str.rstrip(ch)
RStrip(s, ch) == RStripAll(s, ch)

----------------------------------------------------------------------------
(* The environment *)

EnvModes == {None, Some("development"), Some("production"), Some("")}
TokenValues == {None, Some(<<>>), Some(<<"p", "a", "t">>)}
HostChars == {"h", "/"}
HostValues == SeqsUpTo(HostChars, MaxHostLen)
EnvHosts == {None} \cup {Some(h) : h \in HostValues}

\* os.getenv(name, default)
GetEnv(o, default) == IF o.some THEN o.val ELSE default

\* A variant that takes anything but "production" for development.
IsLocalDevelopmentLax == GetEnv(env.ENV, "development") # "production"

_is_local_development == GetEnv(env.ENV, "development") = "development"


----------------------------------------------------------------------------
(* Bookkeeping shared by the resolvers *)

InFlight == {c \in Callers : pc[c] # "idle"}
Started == Len(hist) + Cardinality(InFlight)
CanStart(c) == pc[c] = "idle" /\ Started < MaxCalls

Complete(c, ev) ==
  /\ hist' = Append(hist, ev)
  /\ pc' = [pc EXCEPT ![c] = "idle"]
  /\ pending' = [pending EXCEPT ![c] = None]

----------------------------------------------------------------------------
(* get_current_user, _get_dev_user, _fetch_user_from_workspace *)

Headers == {None, Some(""), Some("alice@example.com")}
UserNames == {None, Some(""), Some("dev@example.com"), Some("ops@example.com")}
\* What client.current_user.me() does: it raises, or returns a user whose
\* user_name is one of UserNames.
MeOutcomes == {Raised("SdkError")} \cup {Ok(u) : u \in UserNames}

\* looked: whether the call made the SDK lookup.
UserEvent(header, out, looked) ==
  [op |-> "get_current_user", header |-> header, out |-> out,
   looked |-> looked]

_fetch_user_from_workspace(me) ==
  IF me.kind = "error" THEN Raised("ValueError")
  ELSE IF ~TruthyStr(me.val) THEN Raised("ValueError")
  ELSE Ok(me.val.val)

\* A variant that never consults the cache.
GetDevUserNoCache(c, header) ==
  /\ pc' = [pc EXCEPT ![c] = "to_thread"]
  /\ pending' = [pending EXCEPT ![c] = header]
  /\ lookups' = lookups + 1
  /\ UNCHANGED <<_dev_user_cache, hist>>

\* _get_dev_user up to its await: a cached user is returned at once; otherwise
\* the lookup is handed to a worker thread and the coroutine is suspended.
_get_dev_user(c, header) ==
  IF _dev_user_cache # None
  THEN /\ Complete(c, UserEvent(header, Ok(_dev_user_cache.val), FALSE))
       /\ UNCHANGED <<_dev_user_cache, lookups>>
  ELSE /\ pc' = [pc EXCEPT ![c] = "to_thread"]
       /\ pending' = [pending EXCEPT ![c] = header]
       /\ lookups' = lookups + 1
       /\ UNCHANGED <<_dev_user_cache, hist>>

\* A variant that consults the development fallback before the header.
GetCurrentUserDevFirst(c, header) ==
  /\ CanStart(c)
  /\ IF _is_local_development
     THEN _get_dev_user(c, header)
     ELSE /\ Complete(c, UserEvent(header,
                 IF TruthyStr(header) THEN Ok(header.val)
                 ELSE Raised("ValueError"), FALSE))
          /\ UNCHANGED <<_dev_user_cache, lookups>>
  /\ UNCHANGED <<env, _workspace_url_cache>>
  /\ UNCHANGED manifestVars

get_current_user(c, header) ==
  /\ CanStart(c)
  /\ IF TruthyStr(header)
     THEN /\ Complete(c, UserEvent(header, Ok(header.val), FALSE))
          /\ UNCHANGED <<_dev_user_cache, lookups>>
     ELSE IF _is_local_development
     THEN _get_dev_user(c, header)
     ELSE /\ Complete(c, UserEvent(header, Raised("ValueError"), FALSE))
          /\ UNCHANGED <<_dev_user_cache, lookups>>
  /\ UNCHANGED <<env, _workspace_url_cache>>
  /\ UNCHANGED manifestVars

\* A variant that forgets the cached user when a lookup fails.
GetDevUserResumeClearing(c, me) ==
  /\ pc[c] = "to_thread"
  /\ LET r == _fetch_user_from_workspace(me) IN
       /\ _dev_user_cache' = IF r.kind = "ok" THEN Some(r.val) ELSE None
       /\ Complete(c, UserEvent(pending[c], r, TRUE))
  /\ UNCHANGED <<env, _workspace_url_cache, lookups>>
  /\ UNCHANGED manifestVars

\* _get_dev_user from its await on: the worker thread's result arrives; an
\* exception propagates, a user name is cached and returned.
_get_dev_user_resume(c, me) ==
  /\ pc[c] = "to_thread"
  /\ LET r == _fetch_user_from_workspace(me) IN
       /\ _dev_user_cache' = IF r.kind = "ok" THEN Some(r.val)
                             ELSE _dev_user_cache
       /\ Complete(c, UserEvent(pending[c], r, TRUE))
  /\ UNCHANGED <<env, _workspace_url_cache, lookups>>
  /\ UNCHANGED manifestVars

----------------------------------------------------------------------------
(* get_current_token, get_fmapi_token *)

Bearer == <<"B", "e", "a", "r", "e", "r", " ">>
AuthValues ==
  { Bearer \o <<"s", "p">>, Bearer, <<"B", "e", "a", "r", "e", "r">>,
    <<"b", "e", "a", "r", "e", "r", " ", "s", "p">>,
    <<"B", "a", "s", "i", "c", " ", "s", "p">>, <<>> }
\* A headers dict is a function from its keys.
EmptyDict == [k \in {} |-> <<>>]
HeaderDicts ==
  {EmptyDict, [k \in {"X-Databricks-Org-Id"} |-> <<"1">>]}
    \cup {[k \in {"Authorization"} |-> a] : a \in AuthValues}
\* What _get_workspace_client() followed by client.config.authenticate() does:
\* either of them raises, or authenticate returns None or a dict.
MintOutcomes ==
  {Raised("WorkspaceClient"), Raised("authenticate")}
    \cup {Ok(None)} \cup {Ok(Some(d)) : d \in HeaderDicts}

\* Neither function suspends: the caller is not part of what it does.
TokenEvent(op, mint, out) == [op |-> op, mint |-> mint, out |-> out]

\* The lines shared by both functions: os.getenv('DATABRICKS_TOKEN'), if truthy.
EnvToken ==
  IF TruthySeq(env.DATABRICKS_TOKEN) THEN Ok(env.DATABRICKS_TOKEN.val)
  ELSE Absent

\* A variant that reads the environment token in every mode.
CurrentTokenAnyMode == EnvToken

current_token == IF ~_is_local_development THEN Absent ELSE EnvToken

get_current_token(c) ==
  /\ CanStart(c)
  /\ Complete(c, TokenEvent("get_current_token", None, current_token))
  /\ UNCHANGED <<env, _dev_user_cache, _workspace_url_cache, lookups>>
  /\ UNCHANGED manifestVars

\* The body of the try block: the token it returns, Absent when it falls
\* through, Raised when an exception leaves it.
MintToken(mint) ==
  IF mint.kind = "error" THEN mint
  ELSE LET headers == mint.val IN
    IF headers.some /\ DOMAIN headers.val # {}
       /\ "Authorization" \in DOMAIN headers.val
    THEN LET auth_header == headers.val["Authorization"] IN
           IF StartsWith(auth_header, Bearer)
           THEN Ok(SliceFrom(auth_header, 7))
           ELSE Absent
    ELSE Absent

\* A variant whose except clause lets the exception through.
FmapiTokenNoCatch(mint) ==
  IF ~_is_local_development
  THEN LET t == MintToken(mint) IN
         IF t.kind = "ok" THEN t
         ELSE IF t.kind = "error" THEN Raised("Exception")
         ELSE EnvToken
  ELSE EnvToken

fmapi_token(mint) ==
  IF ~_is_local_development
  THEN LET t == MintToken(mint) IN
         IF t.kind = "ok" THEN t ELSE EnvToken
  ELSE EnvToken

get_fmapi_token(c, mint) ==
  /\ CanStart(c)
  /\ Complete(c, TokenEvent("get_fmapi_token", Some(mint), fmapi_token(mint)))
  /\ UNCHANGED <<env, _dev_user_cache, _workspace_url_cache, lookups>>
  /\ UNCHANGED manifestVars

----------------------------------------------------------------------------
(* get_workspace_url *)

\* What _get_workspace_client() followed by client.config.host does: the
\* construction raises, or the configured host is None or a string.
ConfigHosts == {<<"h", "/">>, <<"w">>}
ConfigOutcomes ==
  {Raised("WorkspaceClient"), Ok(None)} \cup {Ok(Some(h)) : h \in ConfigHosts}

\* source: where the call took the URL from.
UrlEvent(source, out) ==
  [op |-> "get_workspace_url", source |-> source, out |-> out]

\* The function up to the point where it has computed the value to cache.
\* Callers may be threads, so the store and the final read of the global are
\* steps of their own.
get_workspace_url(c, cfg) ==
  /\ CanStart(c)
  /\ IF _workspace_url_cache # None
     THEN Complete(c, UrlEvent("cache", Ok(_workspace_url_cache.val)))
     ELSE IF TruthySeq(env.DATABRICKS_HOST)
     THEN /\ pc' = [pc EXCEPT ![c] = "url_store"]
          /\ pending' = [pending EXCEPT ![c] =
               Some([source |-> "env",
                     val |-> RStrip(env.DATABRICKS_HOST.val, "/")])]
          /\ UNCHANGED hist
     ELSE IF cfg.kind = "error" \/ cfg.val = None
     THEN Complete(c, UrlEvent("failed", Ok(<<>>)))
     ELSE /\ pc' = [pc EXCEPT ![c] = "url_store"]
          /\ pending' = [pending EXCEPT ![c] =
               Some([source |-> "config", val |-> RStrip(cfg.val.val, "/")])]
          /\ UNCHANGED hist
  /\ UNCHANGED <<env, _dev_user_cache, _workspace_url_cache, lookups>>
  /\ UNCHANGED manifestVars

\* _workspace_url_cache = ...
get_workspace_url_store(c) ==
  /\ pc[c] = "url_store"
  /\ _workspace_url_cache' = Some(pending[c].val.val)
  /\ pc' = [pc EXCEPT ![c] = "url_return"]
  /\ UNCHANGED <<env, _dev_user_cache, pending, lookups, hist>>
  /\ UNCHANGED manifestVars

\* return _workspace_url_cache
get_workspace_url_return(c) ==
  /\ pc[c] = "url_return"
  /\ Complete(c, UrlEvent(pending[c].val.source,
                          Ok(_workspace_url_cache.val)))
  /\ UNCHANGED <<env, _dev_user_cache, _workspace_url_cache, lookups>>
  /\ UNCHANGED manifestVars

----------------------------------------------------------------------------
(* _delete_from_databricks, delete_tracked_resource *)

RemoteTypes ==
  {"dashboard", "job", "pipeline", "genie_space", "knowledge_assistant",
   "multi_agent_supervisor"}
UcTypes == {"catalog", "schema", "volume"}
TrackedTypes == RemoteTypes \cup UcTypes
ResourceTypes == TrackedTypes \cup {"unknown_type"}
ResourceIds == {"123", "abc"}
\* The ids int() accepts.
IntLiterals == {"123"}
ManifestRecords == ResourceTypes \X ResourceIds

\* What the per-type deletion routine does once it is called: it returns, or
\* raises an exception e, of which the code keeps str(e).
RemoteOutcomes == {Ok("deleted"), Raised(""), Raised("RESOURCE_DOES_NOT_EXIST")}

\* Returns the error string, or None on success.
_delete_from_databricks(resource_type, resource_id, remote) ==
  IF resource_type = "job" /\ resource_id \notin IntLiterals
  THEN Some("invalid literal for int() with base 10: '" \o resource_id \o "'")
  ELSE IF resource_type \in TrackedTypes
  THEN IF remote.kind = "error" THEN Some(remote.err) ELSE None
  ELSE Some("Unsupported resource type for deletion: " \o resource_type)

\* remove_resource of the manifest store: whether a record was found.
RemoveResourceFound(resource_type, resource_id) ==
  <<resource_type, resource_id>> \in manifest
\* remove_resource of the manifest store: the records it leaves.
RemoveResourceStore(resource_type, resource_id) ==
  manifest \ {<<resource_type, resource_id>>}

\* The result dict after the optional Databricks deletion (lines 126-141).
AfterDatabricks(type, resource_id, delete_from_databricks, remote) ==
  LET error == IF delete_from_databricks
               THEN _delete_from_databricks(type, resource_id, remote)
               ELSE None
      r0 == [success |-> TRUE, removed_from_manifest |-> FALSE,
             deleted_from_databricks |-> FALSE, error |-> None]
  IN IF ~delete_from_databricks THEN r0
     ELSE IF TruthyStr(error)
     THEN [r0 EXCEPT !.error = Some("Databricks deletion failed: " \o error.val),
                     !.success = FALSE]
     ELSE [r0 EXCEPT !.deleted_from_databricks = TRUE]

\* A variant in which a record that is not found always means failure.
AfterManifestNotFoundFails(r, type, resource_id, removed) ==
  LET r1 == [r EXCEPT !.removed_from_manifest = removed] IN
    IF ~removed /\ ~TruthyStr(r1.error)
    THEN [r1 EXCEPT
            !.error = Some("Resource " \o type \o "/" \o resource_id
                           \o " not found in manifest"),
            !.success = FALSE]
    ELSE r1

\* The result dict after the manifest removal (lines 144-151).
AfterManifest(r, type, resource_id, removed) ==
  LET r1 == [r EXCEPT !.removed_from_manifest = removed] IN
    IF ~removed /\ ~TruthyStr(r1.error)
    THEN [r1 EXCEPT
            !.error = Some("Resource " \o type \o "/" \o resource_id
                           \o " not found in manifest"),
            !.success = r1.deleted_from_databricks]
    ELSE r1

\* A variant that leaves the manifest alone once the Databricks deletion failed.
DeleteSkippingManifestOnError(type, resource_id, delete_from_databricks, remote) ==
  LET r == AfterDatabricks(type, resource_id, delete_from_databricks, remote)
      skip == TruthyStr(r.error)
      removed == ~skip /\ RemoveResourceFound(type, resource_id)
  IN /\ manifest' = IF skip THEN manifest
                    ELSE RemoveResourceStore(type, resource_id)
     /\ removeLog' = IF skip THEN <<>> ELSE <<<<type, resource_id>>>>
     /\ result' = Some([type |-> type, resource_id |-> resource_id,
                        delete_from_databricks |-> delete_from_databricks,
                        remote |-> remote,
                        ret |-> AfterManifest(r, type, resource_id, removed)])
     /\ UNCHANGED userVars

delete_tracked_resource(type, resource_id, delete_from_databricks, remote) ==
  LET r == AfterDatabricks(type, resource_id, delete_from_databricks, remote)
      removed == RemoveResourceFound(type, resource_id)
  IN /\ manifest' = RemoveResourceStore(type, resource_id)
     /\ removeLog' = <<<<type, resource_id>>>>
     /\ result' = Some([type |-> type, resource_id |-> resource_id,
                        delete_from_databricks |-> delete_from_databricks,
                        remote |-> remote,
                        ret |-> AfterManifest(r, type, resource_id, removed)])
     /\ UNCHANGED userVars

----------------------------------------------------------------------------
(* Specifications *)

UserIdle ==
  /\ _dev_user_cache = None
  /\ _workspace_url_cache = None
  /\ pc = [c \in Callers |-> "idle"]
  /\ pending = [c \in Callers |-> None]
  /\ lookups = 0
  /\ hist = <<>>

ManifestIdle ==
  /\ manifest = {}
  /\ result = None
  /\ removeLog = <<>>

RECURSIVE SubsetsUpTo(_, _)
SubsetsUpTo(S, n) ==
  IF n = 0 THEN {{}}
  ELSE LET P == SubsetsUpTo(S, n - 1) IN P \cup {p \cup {x} : p \in P, x \in S}

\* Concurrent requests resolving the caller's identity.
InitIdentity ==
  /\ env \in [ENV : EnvModes, DATABRICKS_TOKEN : {None}, DATABRICKS_HOST : {None}]
  /\ UserIdle
  /\ ManifestIdle

NextIdentity ==
  \/ \E c \in Callers, header \in Headers : get_current_user(c, header)
  \/ \E c \in Callers, me \in MeOutcomes : _get_dev_user_resume(c, me)

SpecIdentity == InitIdentity /\ [][NextIdentity]_vars

\* One request at a time.
NextIdentitySeq ==
  \/ \E header \in Headers : get_current_user(1, header)
  \/ \E me \in MeOutcomes : _get_dev_user_resume(1, me)

SpecIdentitySeq == InitIdentity /\ [][NextIdentitySeq]_vars

\* Requests resolving a credential.
InitCredential ==
  /\ env \in [ENV : EnvModes, DATABRICKS_TOKEN : TokenValues,
              DATABRICKS_HOST : {None}]
  /\ UserIdle
  /\ ManifestIdle

NextCredential ==
  \/ \E c \in Callers : get_current_token(c)
  \/ \E c \in Callers, mint \in MintOutcomes : get_fmapi_token(c, mint)

SpecCredential == InitCredential /\ [][NextCredential]_vars

\* Concurrent callers of get_workspace_url.
InitWorkspaceUrl ==
  /\ env \in [ENV : {None}, DATABRICKS_TOKEN : {None}, DATABRICKS_HOST : EnvHosts]
  /\ UserIdle
  /\ ManifestIdle

NextWorkspaceUrl ==
  \/ \E c \in Callers, cfg \in ConfigOutcomes : get_workspace_url(c, cfg)
  \/ \E c \in Callers : get_workspace_url_store(c)
  \/ \E c \in Callers : get_workspace_url_return(c)

SpecWorkspaceUrl == InitWorkspaceUrl /\ [][NextWorkspaceUrl]_vars

\* Concurrent requests using both process-wide caches, in development mode.
InitCaches ==
  /\ env \in [ENV : {None, Some("development")}, DATABRICKS_TOKEN : {None},
              DATABRICKS_HOST : {None, Some(<<"h", "/">>)}]
  /\ UserIdle
  /\ ManifestIdle

NextCaches == NextIdentity \/ NextWorkspaceUrl

SpecCaches == InitCaches /\ [][NextCaches]_vars

\* Deletions against a manifest of at most MaxRecords records.
InitManifest ==
  /\ env = [ENV |-> None, DATABRICKS_TOKEN |-> None, DATABRICKS_HOST |-> None]
  /\ UserIdle
  /\ manifest \in SubsetsUpTo(ManifestRecords, MaxRecords)
  /\ result = None
  /\ removeLog = <<>>

NextManifest ==
  \E type \in ResourceTypes, resource_id \in ResourceIds,
     delete_from_databricks \in BOOLEAN, remote \in RemoteOutcomes :
    delete_tracked_resource(type, resource_id, delete_from_databricks, remote)

SpecManifest == InitManifest /\ [][NextManifest]_vars

----------------------------------------------------------------------------
(* Claims about delete_tracked_resource.  Every step of SpecManifest is one  *)
(* call: result' holds its arguments, what the deletion routine did and the  *)
(* dict returned; manifest is the store before the call, manifest' after.    *)

FailedPrefix == "Databricks deletion failed: "
Key(call) == <<call.type, call.resource_id>>

\* The per-type deletion routine was called and raised.
RoutineRaised(call) ==
  /\ call.type \in TrackedTypes
  /\ ~(call.type = "job" /\ call.resource_id \notin IntLiterals)
  /\ call.remote.kind = "error"

\* The deletion from Databricks did not happen: the type is not supported,
\* the job id is no integer, or the routine raised.
RemoteFailed(call) ==
  \/ call.type \notin TrackedTypes
  \/ call.type = "job" /\ call.resource_id \notin IntLiterals
  \/ call.remote.kind = "error"

C1_Step ==
  LET call == result'.val
      ret == call.ret
  IN /\ (call.delete_from_databricks /\ RoutineRaised(call)) =>
          /\ removeLog' = <<Key(call)>>
          /\ ret.removed_from_manifest
               = RemoveResourceFound(call.type, call.resource_id)
          /\ ret.success = FALSE
          /\ ret.deleted_from_databricks = FALSE
          /\ ret.error = Some(FailedPrefix \o call.remote.err)
     /\ ret.deleted_from_databricks =>
          (call.delete_from_databricks /\ ~RemoteFailed(call))

\* C1: when delete_from_databricks is requested for a tracked type and the
\* deletion routine raises, whatever the exception's message, the manifest
\* removal is still made exactly once and reported, and the result has
\* success = False, deleted_from_databricks = False and an error that starts
\* with "Databricks deletion failed: "; deleted_from_databricks is True only
\* when the deletion was requested and succeeded.
C1_RaisedDeletionIsReported == [][C1_Step]_vars

C2_OriginalStep ==
  LET call == result'.val
      ret == call.ret
      failed == call.delete_from_databricks /\ RemoteFailed(call)
      removed == RemoveResourceFound(call.type, call.resource_id)
  IN ret.success = (~failed /\ removed)

\* C2 as stated: success is False if the Databricks deletion was requested
\* and failed, False if no record was removed and there is no deletion error,
\* and True otherwise.
C2_SuccessAsStated == [][C2_OriginalStep]_vars

C2_Step ==
  LET call == result'.val
      ret == call.ret
      reported == /\ call.delete_from_databricks
                  /\ TruthyStr(_delete_from_databricks(
                       call.type, call.resource_id, call.remote))
      removed == RemoveResourceFound(call.type, call.resource_id)
  IN /\ ret.success = (~reported /\ (removed \/ call.delete_from_databricks))
     /\ (~reported /\ ~removed) =>
          ret.error = Some("Resource " \o call.type \o "/" \o call.resource_id
                           \o " not found in manifest")

\* C2, amended: success is False if the Databricks deletion was requested
\* and reported an error (a non-empty error string), False if no record was
\* removed and the Databricks deletion was not requested, and True otherwise:
\* a deletion that succeeded with no record in the manifest returns
\* success = True together with the "not found in manifest" error.
C2_SuccessComposition == [][C2_Step]_vars

C2_Witness ==
  /\ result # None
  /\ result.val.delete_from_databricks
  /\ result.val.remote.kind = "ok"
  /\ result.val.ret.deleted_from_databricks
  /\ ~result.val.ret.removed_from_manifest
  /\ result.val.ret.success
  /\ result.val.ret.error # None

UnsupportedError(call) ==
  Some(FailedPrefix \o "Unsupported resource type for deletion: " \o call.type)

C3_OriginalStep ==
  LET call == result'.val IN
    (call.delete_from_databricks /\ call.type \notin TrackedTypes) =>
      /\ call.ret.error = UnsupportedError(call)
      /\ removeLog' = <<>>
      /\ manifest' = manifest

\* C3 as stated: a deletion from Databricks requested for a type that is not
\* tracked returns the unsupported-type error and does not touch the
\* manifest: remove_resource is not called and the records stay as they were.
C3_UnsupportedLeavesManifest == [][C3_OriginalStep]_vars

C3_Step ==
  LET call == result'.val IN
    (call.delete_from_databricks /\ call.type \notin TrackedTypes) =>
      /\ call.ret.error = UnsupportedError(call)
      /\ call.ret.success = FALSE
      /\ call.ret.deleted_from_databricks = FALSE
      /\ removeLog' = <<Key(call)>>
      /\ call.ret.removed_from_manifest
           = RemoveResourceFound(call.type, call.resource_id)
      /\ manifest' = RemoveResourceStore(call.type, call.resource_id)

\* C3, amended: a deletion from Databricks requested for a type that is not
\* tracked returns the unsupported-type error with success = False and
\* deleted_from_databricks = False, and the manifest removal is still made:
\* remove_resource is called once for (type, id), removed_from_manifest is
\* what it returned and the store is as it left it.
C3_UnsupportedStillRemoves == [][C3_Step]_vars

C3_Witness ==
  /\ result # None
  /\ result.val.delete_from_databricks
  /\ result.val.type \notin TrackedTypes
  /\ result.val.ret.removed_from_manifest
  /\ result.val.ret.error = UnsupportedError(result.val)
  /\ Key(result.val) \notin manifest
  /\ removeLog = <<Key(result.val)>>

----------------------------------------------------------------------------
(* Claims about the resolvers.  hist holds one event per completed call; a    *)
(* step that completes a call appends its event.                              *)

Completes == Len(hist') = Len(hist) + 1
Done == hist'[Len(hist')]
IsUser(ev) == ev.op = "get_current_user"
IsUrl(ev) == ev.op = "get_workspace_url"
Production == env.ENV.some /\ env.ENV.val # "development"
Development == ~env.ENV.some \/ env.ENV.val = "development"
UserEvents == {i \in DOMAIN hist : IsUser(hist[i])}
\* The completed calls that carried no usable X-Forwarded-User header.
BareEvents == {i \in UserEvents : ~TruthyStr(hist[i].header)}

C4_Step ==
  (Completes /\ IsUser(Done) /\ Done.header.some /\ Done.header.val # "") =>
    /\ Done.out = Ok(Done.header.val)
    /\ Done.looked = FALSE
    /\ lookups' = lookups
    /\ _dev_user_cache' = _dev_user_cache

\* C4: a request with a non-empty X-Forwarded-User header gets exactly that
\* header value, in development and in production mode and whatever the
\* cache holds, with no SDK lookup and with the identity cache left as it was.
C4_HeaderWins == [][C4_Step]_vars

C4_Witness ==
  /\ Development
  /\ _dev_user_cache # None
  /\ \E i \in UserEvents :
       /\ hist[i].header = Some("alice@example.com")
       /\ hist[i].out = Ok("alice@example.com")
       /\ \E j \in 1..(i - 1) : IsUser(hist[j]) /\ hist[j].looked
                                 /\ hist[j].out.kind = "ok"

C5_Step ==
  (Completes /\ IsUser(Done) /\ Production
     /\ (Done.header = None \/ Done.header = Some(""))) =>
    /\ Done.out = Raised("ValueError")
    /\ Done.looked = FALSE
    /\ lookups' = lookups
    /\ _dev_user_cache' = _dev_user_cache

\* C5: with ENV set to anything but "development", a request whose
\* X-Forwarded-User header is absent or empty fails with the ValueError, with
\* no SDK lookup started and the identity cache left as it was; no lookup is
\* ever in flight in that mode.
C5_ProductionNeedsHeader ==
  [][C5_Step /\ (Production => lookups' = 0 /\ pc' = pc)]_vars

C5_Witness ==
  /\ env.ENV = Some("")
  /\ \E i \in UserEvents :
       hist[i].header = Some("") /\ hist[i].out = Raised("ValueError")
  /\ \E i \in UserEvents :
       hist[i].header = None /\ hist[i].out = Raised("ValueError")

ConsecutiveBareAgree ==
  \A i, j \in BareEvents :
    (i < j /\ hist[i].out.kind = "ok" /\ hist[j].out.kind = "ok"
       /\ ~\E k \in BareEvents : i < k /\ k < j) =>
      hist[i].out.val = hist[j].out.val

\* C6 as stated: in development mode, over a sequence of calls without the
\* header, two consecutive calls return the same string and the SDK lookup
\* is made at most once.
C6_LookupAtMostOnce == Development => (ConsecutiveBareAgree /\ lookups <= 1)

\* C6, amended: in development mode, over a sequence of calls none of which
\* overlaps another, two consecutive calls without the header that both
\* return give the same string, and at most one lookup succeeds: after a
\* successful lookup no call looks up again, while a failed lookup is not
\* cached and the next call without the header looks up again.
C6_OneSuccessfulLookup ==
  Development =>
    /\ ConsecutiveBareAgree
    /\ \A i, j \in BareEvents :
         (i < j /\ hist[i].looked /\ hist[i].out.kind = "ok") => ~hist[j].looked
    /\ \A i, j \in BareEvents :
         (j = i + 1 /\ hist[i].out.kind = "error") => hist[j].looked
    /\ lookups = Cardinality({i \in BareEvents : hist[i].looked})
                   + Cardinality(InFlight)

C6_Witness ==
  /\ Development
  /\ Len(hist) >= 3
  /\ hist[1].header = None /\ hist[1].looked /\ hist[1].out.kind = "error"
  /\ hist[2].header = None /\ hist[2].looked /\ hist[2].out.kind = "ok"
  /\ hist[3].header = None /\ ~hist[3].looked /\ hist[3].out = hist[2].out
  /\ lookups = 2

\* C7 as stated: once a cache is populated its value never changes, under
\* every interleaving of concurrent callers.
C7_CacheNeverChanges ==
  [][/\ _dev_user_cache # None => _dev_user_cache' = _dev_user_cache
     /\ _workspace_url_cache # None
          => _workspace_url_cache' = _workspace_url_cache]_vars

C7_Step ==
  /\ _dev_user_cache # None => _dev_user_cache' # None
  /\ _workspace_url_cache # None => _workspace_url_cache' # None
  /\ (Completes /\ IsUser(Done) /\ ~TruthyStr(Done.header) /\ ~Done.looked
        /\ Done.out.kind = "ok") =>
       (_dev_user_cache = Some(Done.out.val) /\ lookups' = lookups)
  /\ (Completes /\ IsUrl(Done) /\ Done.source = "cache") =>
       _workspace_url_cache = Some(Done.out.val)
  /\ _dev_user_cache' # _dev_user_cache =>
       /\ Completes /\ IsUser(Done) /\ Done.looked
       /\ \E c \in Callers : pc[c] = "to_thread" /\ pc'[c] = "idle"
       /\ _dev_user_cache' = Some(Done.out.val)
  /\ _workspace_url_cache' # _workspace_url_cache =>
       \E c \in Callers :
         /\ pc[c] = "url_store" /\ pc'[c] = "url_return"
         /\ _workspace_url_cache' = Some(pending[c].val.val)

\* C7, amended: once populated, a cache is never emptied, and a call that
\* finds it populated returns the cached value without a lookup; but the
\* value may change: only a caller that found the cache empty writes it, each
\* such caller stores the result of its own lookup when it completes, and the
\* last write wins, so later reads return the same value exactly when the
\* concurrent lookups returned the same value.
C7_LastWriteWins == [][C7_Step]_vars

C7_Witness ==
  /\ _dev_user_cache = Some("ops@example.com")
  /\ \E i, j \in BareEvents :
       /\ i < j
       /\ hist[i].looked /\ hist[i].out = Ok("dev@example.com")
       /\ hist[j].looked /\ hist[j].out = Ok("ops@example.com")

TokenEvents(op) == {i \in DOMAIN hist : hist[i].op = op}

\* C8 as stated: get_current_token returns None in production mode whatever
\* DATABRICKS_TOKEN is; in development mode it returns DATABRICKS_TOKEN when
\* the variable is set and None otherwise.
C8_TokenWhenSet ==
  \A i \in TokenEvents("get_current_token") :
    hist[i].out = IF Production THEN Absent
                  ELSE IF env.DATABRICKS_TOKEN.some
                       THEN Ok(env.DATABRICKS_TOKEN.val)
                       ELSE Absent

\* C8, amended: get_current_token returns None in production mode whatever
\* DATABRICKS_TOKEN is; in development mode it returns DATABRICKS_TOKEN when
\* the variable is set to a non-empty value, and None when it is unset or
\* empty.
C8_TokenWhenNonEmpty ==
  \A i \in TokenEvents("get_current_token") :
    hist[i].out = IF Production THEN Absent
                  ELSE IF env.DATABRICKS_TOKEN.some
                          /\ Len(env.DATABRICKS_TOKEN.val) > 0
                       THEN Ok(env.DATABRICKS_TOKEN.val)
                       ELSE Absent

C8_Witness ==
  /\ Development
  /\ env.DATABRICKS_TOKEN = Some(<<>>)
  /\ \E i \in TokenEvents("get_current_token") : hist[i].out = Absent

\* Minting failed: the client or authenticate raised, or no Authorization
\* value starting with "Bearer " came back.
MintFailed(mint) ==
  \/ mint.kind = "error"
  \/ mint.val = None
  \/ "Authorization" \notin DOMAIN mint.val.val
  \/ LET a == mint.val.val["Authorization"] IN
       Len(a) < 7 \/ \E k \in 1..7 : a[k] # Bearer[k]

\* C9 as stated: in production mode get_fmapi_token never raises, and when
\* minting fails it returns DATABRICKS_TOKEN if the variable is set and None
\* otherwise.
C9_FallbackWhenSet ==
  Production =>
    \A i \in TokenEvents("get_fmapi_token") :
      /\ hist[i].out.kind # "error"
      /\ MintFailed(hist[i].mint.val) =>
           hist[i].out = IF env.DATABRICKS_TOKEN.some
                         THEN Ok(env.DATABRICKS_TOKEN.val)
                         ELSE Absent

\* C9, amended: in production mode get_fmapi_token never raises, and when
\* minting fails it returns what the development path returns: DATABRICKS_TOKEN
\* if the variable is set to a non-empty value, and None if it is unset or
\* empty.
C9_FallbackWhenNonEmpty ==
  Production =>
    \A i \in TokenEvents("get_fmapi_token") :
      /\ hist[i].out.kind # "error"
      /\ MintFailed(hist[i].mint.val) =>
           hist[i].out = IF env.DATABRICKS_TOKEN.some
                            /\ Len(env.DATABRICKS_TOKEN.val) > 0
                         THEN Ok(env.DATABRICKS_TOKEN.val)
                         ELSE Absent

C9_Witness ==
  /\ Production
  /\ \E i, j, k \in TokenEvents("get_fmapi_token") :
       /\ hist[i].mint.val = Raised("authenticate")
       /\ hist[j].mint.val.kind = "ok" /\ MintFailed(hist[j].mint.val)
       /\ hist[i].out = Ok(<<"p", "a", "t">>)
       /\ hist[j].out = hist[i].out
       /\ ~MintFailed(hist[k].mint.val)

EnvUrlEvents == {i \in DOMAIN hist : IsUrl(hist[i]) /\ hist[i].source = "env"}

\* C10 as stated: with the URL cache empty and DATABRICKS_HOST non-empty,
\* get_workspace_url returns and caches the value with exactly one trailing
\* slash removed, if it has one.
C10_StripsOneSlash ==
  \A i \in EnvUrlEvents :
    /\ hist[i].out = Ok(RStripOne(env.DATABRICKS_HOST.val, "/"))
    /\ _workspace_url_cache = Some(hist[i].out.val)

\* v is s without its trailing slashes.
IsStripped(v, s) ==
  /\ Len(v) <= Len(s)
  /\ v = SubSeq(s, 1, Len(v))
  /\ \A k \in (Len(v) + 1)..Len(s) : s[k] = "/"
  /\ v # <<>> => v[Len(v)] # "/"

\* C10, amended: with the URL cache empty and DATABRICKS_HOST non-empty,
\* get_workspace_url returns and caches the value with all its trailing
\* slashes removed; a value without a trailing slash comes back unchanged.
C10_StripsAllSlashes ==
  \A i \in EnvUrlEvents :
    /\ hist[i].out.kind = "ok"
    /\ IsStripped(hist[i].out.val, env.DATABRICKS_HOST.val)
    /\ _workspace_url_cache = Some(hist[i].out.val)

C10_Witness ==
  /\ env.DATABRICKS_HOST = Some(<<"h", "/", "/">>)
  /\ \E i \in EnvUrlEvents : hist[i].out = Ok(<<"h">>)
  /\ _workspace_url_cache = Some(<<"h">>)

============================================================================
